---- MODULE Spec2Model ----
(***************************************************************************)
(* A model of rlox: lexer -> Pratt parser -> bytecode compiler -> stack VM *)
(* with a persistent variable environment.                                 *)
(*                                                                         *)
(* Text is a sequence of one-character strings.  A number (Rust f64) is a  *)
(* sign-magnitude fraction [s, n, d]: d = 0 /\ n = 1 is an infinity,       *)
(* n = 0 /\ d = 0 is NaN, n = 0 /\ d = 1 is a (signed) zero.  Rounding of  *)
(* the binary format is not modelled: the fractions are exact.             *)
(***************************************************************************)
EXTENDS Integers, Sequences, FiniteSets, TLC

VARIABLES variables, stack, ip, chunk, pc, source, ast, result, entry, calls, writes,
          lexer, lines, host

vars ==
    <<variables, stack, ip, chunk, pc, source, ast, result, entry, calls, writes,
      lexer, lines, host>>

(***************************************************************************)
(* Bounds of the model.                                                    *)
(***************************************************************************)
MaxCalls == 2
MaxText == 1
MaxToks == 5
MaxCode == 2
MaxLines == 3
MaxLex == 4

Digits == <<"0", "1", "2", "3", "4", "5", "6", "7", "8", "9">>

IsDigit(c) == \E i \in 1..Len(Digits) : Digits[i] = c

DigitVal(c) == (CHOOSE i \in 1..Len(Digits) : Digits[i] = c) - 1

None == <<>>

Some(x) == <<x>>

(***************************************************************************)
(* lexer.rs                                                                *)
(***************************************************************************)
TokenMeta(row, col) == [row |-> row, col |-> col]

Token(class, lexeme, meta) == [token_class |-> class, lexeme |-> lexeme, meta |-> meta]

Semicolon == <<"Delim", "Semicolon">>
EoF == <<"Delim", "EoF">>
LeftParen == <<"Op", "LeftParen">>
RightParen == <<"Op", "RightParen">>
Plus == <<"Op", "Plus">>
Min == <<"Op", "Min">>
Slash == <<"Op", "Slash">>
Star == <<"Op", "Star">>
Eq == <<"Op", "Eq">>
NumericLit == <<"Atom", "NumericLit">>
Identifier == <<"Atom", "Identifier">>
Let == <<"Keyword", "Let">>

\* Lexer state: the fields of struct Lexer other than the input.
Lexer(tokens, pos, row, col) == [tokens |-> tokens, pos |-> pos, row |-> row, col |-> col]

LexerNew == Lexer(<<>>, 0, 0, 0)

LexOk(l) == [ok |-> TRUE, lexer |-> l]

LexErr(kind, char, l) ==
    [ok |-> FALSE, kind |-> kind, char |-> char, meta |-> TokenMeta(l.row, l.col)]

\* input.get(at..at + 1): positions are 0-based as in the code.
PeekAt(input, at) == input[at + 1]

new_line(l) == Lexer(l.tokens, l.pos + 1, l.row + 1, 0)

advance(l, by) == Lexer(l.tokens, l.pos + by, l.row, l.col + by)

create_unexpected_char_err(l, lexeme) == LexErr("UnexpectedCharacter", <<lexeme>>, l)

push_token(l, class, lexeme) ==
    Lexer(Append(l.tokens, Token(class, lexeme, TokenMeta(l.row, l.col))), l.pos, l.row, l.col)

scan_delimiter(l, lexeme) ==
    IF lexeme = ";"
    THEN LexOk(advance(push_token(l, Semicolon, <<lexeme>>), 1))
    ELSE create_unexpected_char_err(l, lexeme)

scan_op(l, lexeme) ==
    CASE lexeme = "(" -> LexOk(advance(push_token(l, LeftParen, <<lexeme>>), 1))
      [] lexeme = ")" -> LexOk(advance(push_token(l, RightParen, <<lexeme>>), 1))
      [] lexeme = "=" -> LexOk(advance(push_token(l, Eq, <<lexeme>>), 1))
      [] OTHER -> create_unexpected_char_err(l, lexeme)

scan_binary_op(l, lexeme) ==
    CASE lexeme = "+" -> LexOk(advance(push_token(l, Plus, <<lexeme>>), 1))
      [] lexeme = "-" -> LexOk(advance(push_token(l, Min, <<lexeme>>), 1))
      [] lexeme = "/" -> LexOk(advance(push_token(l, Slash, <<lexeme>>), 1))
      [] lexeme = "*" -> LexOk(advance(push_token(l, Star, <<lexeme>>), 1))
      [] OTHER -> create_unexpected_char_err(l, lexeme)

\* The while loop of scan_num_lit: the end of the literal, or -1 for a second '.'.
RECURSIVE NumLitEnd(_, _, _)
NumLitEnd(input, end, is_float) ==
    IF end < Len(input)
    THEN LET curr == PeekAt(input, end)
         IN  CASE IsDigit(curr) -> NumLitEnd(input, end + 1, is_float)
               [] curr = "." -> IF is_float THEN -1 ELSE NumLitEnd(input, end + 1, TRUE)
               [] OTHER -> end
    ELSE end

\* Mutant: a second '.' ends the literal in front of it.
RECURSIVE NumLitEndAtSecondDot(_, _, _)
NumLitEndAtSecondDot(input, end, is_float) ==
    IF end < Len(input)
    THEN LET curr == PeekAt(input, end)
         IN  CASE IsDigit(curr) -> NumLitEndAtSecondDot(input, end + 1, is_float)
               [] curr = "." ->
                    IF is_float THEN end ELSE NumLitEndAtSecondDot(input, end + 1, TRUE)
               [] OTHER -> end
    ELSE end

scan_num_lit_ends_at_second_dot(input, l) ==
    LexOk(advance(push_token(l, NumericLit,
                             SubSeq(input, l.pos + 1, NumLitEndAtSecondDot(input, l.pos + 1, FALSE))),
                  NumLitEndAtSecondDot(input, l.pos + 1, FALSE) - l.pos))

scan_num_lit(input, l) ==
    LET end == NumLitEnd(input, l.pos + 1, FALSE)
    IN  IF end = -1
        THEN LexErr("InvalidNumericLit", <<".">>, l)
        ELSE LexOk(advance(push_token(l, NumericLit, SubSeq(input, l.pos + 1, end)), end - l.pos))

\* One iteration of the while loop of tokenize.
LexDispatch(input, l) ==
    LET lexeme == PeekAt(input, l.pos)
    IN  CASE lexeme = " " -> LexOk(advance(l, 1))
          [] lexeme = "\n" -> LexOk(new_line(l))
          [] lexeme = ";" -> scan_delimiter(l, lexeme)
          [] lexeme \in {"(", ")"} -> scan_op(l, lexeme)
          [] lexeme \in {"+", "-", "/", "*"} -> scan_binary_op(l, lexeme)
          [] IsDigit(lexeme) -> scan_num_lit(input, l)
          [] OTHER -> create_unexpected_char_err(l, lexeme)

RECURSIVE LexLoop(_, _)
LexLoop(input, l) ==
    IF l.pos < Len(input)
    THEN LET r == LexDispatch(input, l)
         IN  IF r.ok THEN LexLoop(input, r.lexer) ELSE r
    ELSE LexOk(push_token(l, EoF, <<>>))

\* Lexer::new(input).tokenize(): [ok, lexer] with lexer.tokens, or the LexerError.
tokenize(input) == LexLoop(input, LexerNew)

(***************************************************************************)
(* f64 and op_code.rs: Value                                               *)
(***************************************************************************)
RECURSIVE GCD(_, _)
GCD(a, b) == IF b = 0 THEN a ELSE GCD(b, a % b)

\* A canonical f64: sign s, magnitude n/d in lowest terms.
F64(s, n, d) ==
    CASE n = 0 /\ d = 0 -> [s |-> 1, n |-> 0, d |-> 0]
      [] n # 0 /\ d = 0 -> [s |-> s, n |-> 1, d |-> 0]
      [] n = 0 /\ d # 0 -> [s |-> s, n |-> 0, d |-> 1]
      [] OTHER -> [s |-> s, n |-> n \div GCD(n, d), d |-> d \div GCD(n, d)]

NaN == F64(1, 0, 0)

IsNaN(a) == a.n = 0 /\ a.d = 0

IsInf(a) == a.n # 0 /\ a.d = 0

Abs(i) == IF i < 0 THEN -i ELSE i

\* -operand
FNeg(a) == IF IsNaN(a) THEN a ELSE F64(-a.s, a.n, a.d)

\* left + right
FAdd(a, b) ==
    CASE IsNaN(a) \/ IsNaN(b) -> NaN
      [] IsInf(a) -> IF IsInf(b) /\ a.s # b.s THEN NaN ELSE a
      [] IsInf(b) -> b
      [] OTHER ->
           LET num == a.s * a.n * b.d + b.s * b.n * a.d
           IN  IF num = 0
               THEN F64(IF a.s = -1 /\ b.s = -1 THEN -1 ELSE 1, 0, 1)
               ELSE F64(IF num < 0 THEN -1 ELSE 1, Abs(num), a.d * b.d)

\* left - right
FSub(a, b) == FAdd(a, FNeg(b))

\* left * right
FMul(a, b) == F64(a.s * b.s, a.n * b.n, a.d * b.d)

\* left / right
FDiv(a, b) == F64(a.s * b.s, a.n * b.d, a.d * b.n)

RECURSIVE Pow10(_)
Pow10(k) == IF k = 0 THEN 1 ELSE 10 * Pow10(k - 1)

\* The digits of a lexeme read as one integer, the '.' skipped.
RECURSIVE DigitsValue(_, _)
DigitsValue(lexeme, acc) ==
    IF lexeme = <<>> THEN acc
    ELSE IF Head(lexeme) = "." THEN DigitsValue(Tail(lexeme), acc)
    ELSE DigitsValue(Tail(lexeme), 10 * acc + DigitVal(Head(lexeme)))

\* The number of characters after the '.', zero without one.
RECURSIVE FracLen(_)
FracLen(lexeme) ==
    IF lexeme = <<>> THEN 0
    ELSE IF Head(lexeme) = "." THEN Len(lexeme) - 1
    ELSE FracLen(Tail(lexeme))

\* str::parse::<f64>() on a lexeme of scan_num_lit (digits, at most one '.').
ParseF64(lexeme) == F64(1, DigitsValue(lexeme, 0), Pow10(FracLen(lexeme)))

\* The decimal digits of a natural number.
RECURSIVE NatToString(_)
NatToString(k) ==
    IF k < 10 THEN <<Digits[k + 1]>> ELSE Append(NatToString(k \div 10), Digits[(k % 10) + 1])

\* The fractional digits of rem/d, at most `left` of them.
RECURSIVE FracToString(_, _, _)
FracToString(rem, d, left) ==
    IF rem = 0 \/ left = 0 THEN <<>>
    ELSE <<Digits[((rem * 10) \div d) + 1]>> \o FracToString((rem * 10) % d, d, left - 1)

\* f64::to_string(): no exponent, "inf", "NaN", "-0"; a fraction ends where it is
\* exact, or after the 16 digits a double's shortest form carries.
to_string(a) ==
    CASE IsNaN(a) -> <<"N", "a", "N">>
      [] IsInf(a) -> (IF a.s = -1 THEN <<"-">> ELSE <<>>) \o <<"i", "n", "f">>
      [] OTHER ->
           (IF a.s = -1 THEN <<"-">> ELSE <<>>)
           \o NatToString(a.n \div a.d)
           \o (IF a.n % a.d = 0 THEN <<>> ELSE <<".">> \o FracToString(a.n % a.d, a.d, 16))

\* enum Value
Number(f) == [type |-> "Number", num |-> f, str |-> <<>>]

String(s) == [type |-> "String", num |-> NaN, str |-> s]

(***************************************************************************)
(* parser/ast.rs                                                           *)
(***************************************************************************)
VariableAssignmentStmt(token, identifier, expression) ==
    [type |-> "VariableAssignmentStmt", token |-> token, identifier |-> identifier,
     expression |-> expression]

Expr(token, expr) == [type |-> "Expr", token |-> token, expr |-> expr]

BinaryExpr(token, left, right) ==
    [type |-> "BinaryExpr", token |-> token, left |-> left, right |-> right]

UnaryExpr(token, operand) == [type |-> "UnaryExpr", token |-> token, operand |-> operand]

NumericLitNode(token, value) == [type |-> "NumericLit", token |-> token, value |-> value]

VariableAccessExpr(token, identifier) ==
    [type |-> "VariableAccessExpr", token |-> token, identifier |-> identifier]

(***************************************************************************)
(* parser/parser.rs                                                        *)
(***************************************************************************)
\* Mutant: minus has the right binding power of a left-associative operator.
infix_bp_minus_right_low(op) ==
    CASE op = Star -> Some(<<101, 100>>)
      [] op = Slash -> Some(<<91, 90>>)
      [] op = Min -> Some(<<81, 80>>)
      [] op = Plus -> Some(<<71, 70>>)
      [] OTHER -> None

\* Mutant: star binds looser than plus.
infix_bp_star_low(op) ==
    CASE op = Star -> Some(<<61, 60>>)
      [] op = Slash -> Some(<<91, 90>>)
      [] op = Min -> Some(<<81, 110>>)
      [] op = Plus -> Some(<<71, 70>>)
      [] OTHER -> None

\* Binding powers, times ten: 10.1 is 101.
infix_bp(op) ==
    CASE op = Star -> Some(<<101, 100>>)
      [] op = Slash -> Some(<<91, 90>>)
      [] op = Min -> Some(<<81, 110>>)
      [] op = Plus -> Some(<<71, 70>>)
      [] OTHER -> None

\* Ok(node) with the parser's position after it.
ParseOk(node, pos) == [ok |-> TRUE, node |-> node, pos |-> pos]

\* Err(ParserError::kind { token, expected }); token is None for
\* UnexpectedEndOfTokenStream.  kind "todo" is the panic of todo!().
ParseErr(kind, token, expected) ==
    [ok |-> FALSE, kind |-> kind, token |-> token, expected |-> expected]

peek(tokens, pos) ==
    IF pos < Len(tokens)
    THEN [ok |-> TRUE, token |-> tokens[pos + 1]]
    ELSE ParseErr("UnexpectedEndOfTokenStream", None, None)

\* consume: the token at pos; the caller continues at pos + 1.
consume(tokens, pos) == peek(tokens, pos)

consume_expecting(tokens, pos, expected) ==
    LET c == consume(tokens, pos)
    IN  IF ~c.ok THEN c
        ELSE IF c.token.token_class = expected THEN c
        ELSE ParseErr("UnexpectedToken", Some(c.token), Some(expected))

parse_numeric_lit(token, pos) == ParseOk(NumericLitNode(token, ParseF64(token.lexeme)), pos)

parse_identifier(token, pos) == ParseOk(VariableAccessExpr(token, token.lexeme), pos)

RECURSIVE parse_expr(_, _, _)
RECURSIVE ExprLoop(_, _, _, _)

\* Mutant: the operand of a unary minus is parsed at binding power 0.
parse_unary_expr_operand_at_zero(tokens, pos, token) ==
    IF token.token_class[1] # "Op"
    THEN ParseErr("ExpectedOpToken", Some(token), None)
    ELSE LET operand == parse_expr(tokens, pos, 0)
         IN  IF operand.ok
             THEN ParseOk(UnaryExpr(token, operand.node), operand.pos)
             ELSE operand

\* parse_unary_expr: called with the minus token consumed, pos after it.
parse_unary_expr(tokens, pos, token) ==
    IF token.token_class[1] # "Op"
    THEN ParseErr("ExpectedOpToken", Some(token), None)
    ELSE LET right_bp == infix_bp(token.token_class)[1][2]
             operand == parse_expr(tokens, pos, right_bp)
         IN  IF operand.ok
             THEN ParseOk(UnaryExpr(token, operand.node), operand.pos)
             ELSE operand

\* Mutant: the error carries the token found in place of ')'.
parse_nested_expr_end_token(tokens, pos, token) ==
    LET nested_expression == parse_expr(tokens, pos, 0)
    IN  IF ~nested_expression.ok THEN nested_expression
        ELSE LET expression_end_token == consume(tokens, nested_expression.pos)
             IN  IF ~expression_end_token.ok THEN expression_end_token
                 ELSE IF expression_end_token.token.token_class = RightParen
                 THEN ParseOk(Expr(token, nested_expression.node), nested_expression.pos + 1)
                 ELSE ParseErr("UnclosedExpression", Some(expression_end_token.token), None)

\* parse_nested_expr: called with the '(' token consumed, pos after it.
parse_nested_expr(tokens, pos, token) ==
    LET nested_expression == parse_expr(tokens, pos, 0)
    IN  IF ~nested_expression.ok THEN nested_expression
        ELSE LET expression_end_token == consume(tokens, nested_expression.pos)
             IN  IF ~expression_end_token.ok THEN expression_end_token
                 ELSE IF expression_end_token.token.token_class = RightParen
                 THEN ParseOk(Expr(token, nested_expression.node), nested_expression.pos + 1)
                 ELSE ParseErr("UnclosedExpression", Some(token), None)

\* Mutant: the operator is peeked but not consumed before the right operand.
ExprLoop_op_not_consumed(tokens, pos, min_bp, lhs) ==
    LET p == peek(tokens, pos)
    IN  IF ~p.ok THEN p
        ELSE LET op_token == p.token
                 class == op_token.token_class
             IN  CASE class \in {EoF, Semicolon} -> ParseOk(lhs, pos)
                   [] class[1] = "Op" ->
                        LET bp == infix_bp(class)
                        IN  IF bp = None THEN ParseOk(lhs, pos)
                            ELSE IF bp[1][1] < min_bp THEN ParseOk(lhs, pos)
                            ELSE parse_expr(tokens, pos, bp[1][2])
                   [] OTHER -> ParseErr("ExpectedOpToken", Some(op_token), None)

\* The loop of parse_expr: lhs is the tree folded so far.
ExprLoop(tokens, pos, min_bp, lhs) ==
    LET p == peek(tokens, pos)
    IN  IF ~p.ok THEN p
        ELSE LET op_token == p.token
                 class == op_token.token_class
             IN  CASE class \in {EoF, Semicolon} -> ParseOk(lhs, pos)
                   [] class[1] = "Op" ->
                        LET bp == infix_bp(class)
                        IN  IF bp = None THEN ParseOk(lhs, pos)
                            ELSE IF bp[1][1] < min_bp THEN ParseOk(lhs, pos)
                            ELSE LET rhs == parse_expr(tokens, pos + 1, bp[1][2])
                                 IN  IF rhs.ok
                                     THEN ExprLoop(tokens, rhs.pos, min_bp,
                                                   BinaryExpr(op_token, lhs, rhs.node))
                                     ELSE rhs
                   [] OTHER -> ParseErr("ExpectedOpToken", Some(op_token), None)

\* Mutant: a leading plus is parsed as a unary operator, like minus.
parse_expr_unary_plus(tokens, pos, min_bp) ==
    LET c == consume(tokens, pos)
    IN  IF ~c.ok THEN c
        ELSE LET lhs_token == c.token
                 class == lhs_token.token_class
                 lhs == CASE class = NumericLit -> parse_numeric_lit(lhs_token, pos + 1)
                          [] class = Identifier -> parse_identifier(lhs_token, pos + 1)
                          [] class \in {Min, Plus} -> parse_unary_expr(tokens, pos + 1, lhs_token)
                          [] class = LeftParen -> parse_nested_expr(tokens, pos + 1, lhs_token)
                          [] class[1] = "Op" ->
                               ParseErr("UnexpectedUnaryOperator", Some(lhs_token), None)
                          [] OTHER -> ParseErr("UnexpectedToken", Some(lhs_token), None)
             IN  IF lhs.ok THEN ExprLoop(tokens, lhs.pos, min_bp, lhs.node) ELSE lhs

parse_expr(tokens, pos, min_bp) ==
    LET c == consume(tokens, pos)
    IN  IF ~c.ok THEN c
        ELSE LET lhs_token == c.token
                 class == lhs_token.token_class
                 lhs == CASE class = NumericLit -> parse_numeric_lit(lhs_token, pos + 1)
                          [] class = Identifier -> parse_identifier(lhs_token, pos + 1)
                          [] class = Min -> parse_unary_expr(tokens, pos + 1, lhs_token)
                          [] class = LeftParen -> parse_nested_expr(tokens, pos + 1, lhs_token)
                          [] class[1] = "Op" ->
                               ParseErr("UnexpectedUnaryOperator", Some(lhs_token), None)
                          [] OTHER -> ParseErr("UnexpectedToken", Some(lhs_token), None)
             IN  IF lhs.ok THEN ExprLoop(tokens, lhs.pos, min_bp, lhs.node) ELSE lhs

\* parse_variable_assignment_stmt: called with "let" consumed, pos after it.
\* The Ok(...) that ends parse_variable_assignment_stmt, or the error of the
\* value expression.
variable_assignment_stmt(token, expression) ==
    IF ~expression.ok THEN expression
    ELSE ParseOk(VariableAssignmentStmt(token, token.lexeme, expression.node), expression.pos)

parse_variable_assignment_stmt(tokens, pos) ==
    LET token == consume_expecting(tokens, pos, Identifier)
    IN  IF ~token.ok THEN token
        ELSE LET eq == consume_expecting(tokens, pos + 1, Eq)
             IN  IF ~eq.ok THEN eq
                 ELSE variable_assignment_stmt(token.token, parse_expr(tokens, pos + 2, 0))

\* The end of parse_stmt: the ';' behind the statement.
statement_end(tokens, statement) ==
    IF ~statement.ok THEN statement
    ELSE LET semi == consume_expecting(tokens, statement.pos, Semicolon)
         IN  IF ~semi.ok THEN semi
             ELSE ParseOk(statement.node, statement.pos + 1)

parse_stmt(tokens, pos) ==
    LET token == consume(tokens, pos)
    IN  IF ~token.ok THEN token
        ELSE IF token.token.token_class # Let
        THEN ParseErr("todo", Some(token.token), None)
        ELSE statement_end(tokens, parse_variable_assignment_stmt(tokens, pos + 1))

parse_tokens(tokens, pos) ==
    LET token == peek(tokens, pos)
    IN  IF ~token.ok THEN token
        ELSE IF token.token.token_class[1] \in {"Atom", "Op"}
        THEN parse_expr(tokens, pos, 0)
        ELSE parse_stmt(tokens, pos)

\* The end of Parser::parse: the token behind the program is EoF.
program_end(tokens, program) ==
    IF ~program.ok THEN program
    ELSE LET token == consume(tokens, program.pos)
         IN  IF ~token.ok THEN token
             ELSE IF token.token.token_class = EoF THEN program
             ELSE ParseErr("ExpectedEoF", Some(token.token), None)

\* Parser::new(tokens).parse()
parse(tokens) == program_end(tokens, parse_tokens(tokens, 0))

(***************************************************************************)
(* compiler/op_code.rs, compiler/chunk.rs, compiler.rs                     *)
(***************************************************************************)
OpConstant == 0
OpAdd == 1
OpSubtract == 2
OpMultiply == 3
OpDivide == 4
OpNegate == 5
OpSetVar == 6
OpGetVar == 7

\* OpCode::from_usize
from_usize(byte) == IF byte \in OpConstant..OpGetVar THEN Some(byte) ELSE None

Chunk(code, constants, tokens) == [code |-> code, constants |-> constants, tokens |-> tokens]

ChunkNew == Chunk(<<>>, <<>>, <<>>)

add_instruction(c, op_code, token) ==
    Chunk(Append(c.code, op_code), c.constants, Append(c.tokens, token))

\* Mutant: the operand word gets no entry in the token table.
add_constant_without_token(c, value, token) ==
    Chunk(Append(c.code, Len(c.constants)), Append(c.constants, value), c.tokens)

\* Mutant: the operand word is the pool's length after the push.
add_constant_index_after_push(c, value, token) ==
    Chunk(Append(c.code, Len(c.constants) + 1), Append(c.constants, value),
          Append(c.tokens, token))

add_constant(c, value, token) ==
    Chunk(Append(c.code, Len(c.constants)), Append(c.constants, value), Append(c.tokens, token))

CompileOk(c) == [ok |-> TRUE, chunk |-> c]

CompileErr(kind) == [ok |-> FALSE, kind |-> kind]

RECURSIVE compile_ast(_, _)

\* VariableAccessExpr: GetVar, its operand the index of a string constant
\* holding the name.
compile_variable_access_expr(ast_node, c) ==
    CompileOk(add_constant(add_instruction(c, OpGetVar, ast_node.token),
                           String(ast_node.identifier), ast_node.token))

\* VariableAssignmentStmt: the value expression's instructions, then SetVar
\* over the string constant holding the target's name.
compile_variable_assignment_stmt(ast_node, c) ==
    LET expression == compile_ast(ast_node.expression, c)
    IN  IF ~expression.ok THEN expression
        ELSE CompileOk(add_constant(add_instruction(expression.chunk, OpSetVar, ast_node.token),
                                    String(ast_node.identifier), ast_node.token))

\* Mutant: the instruction of a binary node is emitted before its operands.
compile_ast_operator_first(ast_node, c) ==
    CASE ast_node.type = "NumericLit" ->
           CompileOk(add_constant(add_instruction(c, OpConstant, ast_node.token),
                                  Number(ast_node.value), ast_node.token))
      [] ast_node.type = "Expr" -> compile_ast(ast_node.expr, c)
      [] ast_node.type = "UnaryExpr" ->
           LET operand == compile_ast(ast_node.operand, c)
           IN  IF ~operand.ok THEN operand
               ELSE CompileOk(add_instruction(operand.chunk, OpNegate, ast_node.token))
      [] ast_node.type = "BinaryExpr" ->
           LET class == ast_node.token.token_class
               op_code == CASE class = Plus -> OpAdd
                            [] class = Min -> OpSubtract
                            [] class = Star -> OpMultiply
                            [] OTHER -> OpDivide
               left == compile_ast(ast_node.left, add_instruction(c, op_code, ast_node.token))
           IN  IF ~left.ok THEN left ELSE compile_ast(ast_node.right, left.chunk)
      [] ast_node.type = "VariableAccessExpr" -> compile_variable_access_expr(ast_node, c)
      [] ast_node.type = "VariableAssignmentStmt" -> compile_variable_assignment_stmt(ast_node, c)

\* Mutant: the right operand of a binary node is emitted before the left one.
compile_ast_right_first(ast_node, c) ==
    CASE ast_node.type = "NumericLit" ->
           CompileOk(add_constant(add_instruction(c, OpConstant, ast_node.token),
                                  Number(ast_node.value), ast_node.token))
      [] ast_node.type = "Expr" -> compile_ast(ast_node.expr, c)
      [] ast_node.type = "UnaryExpr" ->
           LET operand == compile_ast(ast_node.operand, c)
           IN  IF ~operand.ok THEN operand
               ELSE CompileOk(add_instruction(operand.chunk, OpNegate, ast_node.token))
      [] ast_node.type = "BinaryExpr" ->
           LET right == compile_ast(ast_node.right, c)
               left == compile_ast(ast_node.left, right.chunk)
               class == ast_node.token.token_class
               op_code == CASE class = Plus -> OpAdd
                            [] class = Min -> OpSubtract
                            [] class = Star -> OpMultiply
                            [] OTHER -> OpDivide
           IN  IF ~right.ok THEN right
               ELSE IF ~left.ok THEN left
               ELSE CompileOk(add_instruction(left.chunk, op_code, ast_node.token))
      [] ast_node.type = "VariableAccessExpr" -> compile_variable_access_expr(ast_node, c)
      [] ast_node.type = "VariableAssignmentStmt" -> compile_variable_assignment_stmt(ast_node, c)

compile_ast(ast_node, c) ==
    CASE ast_node.type = "Empty" -> CompileOk(c)
      [] ast_node.type = "NumericLit" ->
           CompileOk(add_constant(add_instruction(c, OpConstant, ast_node.token),
                                  Number(ast_node.value), ast_node.token))
      [] ast_node.type = "Expr" -> compile_ast(ast_node.expr, c)
      [] ast_node.type = "UnaryExpr" ->
           LET operand == compile_ast(ast_node.operand, c)
           IN  IF ~operand.ok THEN operand
               ELSE IF ast_node.token.token_class[1] # "Op" THEN CompileErr("ExpectedOpNode")
               ELSE IF ast_node.token.token_class = Min
               THEN CompileOk(add_instruction(operand.chunk, OpNegate, ast_node.token))
               ELSE CompileErr("UnsupportedToken")
      [] ast_node.type = "BinaryExpr" ->
           LET left == compile_ast(ast_node.left, c)
           IN  IF ~left.ok THEN left
               ELSE LET right == compile_ast(ast_node.right, left.chunk)
                        class == ast_node.token.token_class
                    IN  IF ~right.ok THEN right
                        ELSE IF class[1] # "Op" THEN CompileErr("ExpectedOpNode")
                        ELSE CASE class = Plus ->
                                    CompileOk(add_instruction(right.chunk, OpAdd, ast_node.token))
                               [] class = Min ->
                                    CompileOk(add_instruction(right.chunk, OpSubtract, ast_node.token))
                               [] class = Star ->
                                    CompileOk(add_instruction(right.chunk, OpMultiply, ast_node.token))
                               [] class = Slash ->
                                    CompileOk(add_instruction(right.chunk, OpDivide, ast_node.token))
                               [] OTHER -> CompileErr("UnsupportedBinaryOperator")
      [] ast_node.type = "VariableAccessExpr" -> compile_variable_access_expr(ast_node, c)
      [] ast_node.type = "VariableAssignmentStmt" -> compile_variable_assignment_stmt(ast_node, c)

\* A stage's failure as Interpreter::interpret returns it; kind "panic" is a
\* todo!() or an index out of bounds, which ends the process.
Failure(kind, stage, err) ==
    [kind |-> kind, stage |-> stage, err |-> err, value |-> None, text |-> <<>>]

Success(value, text) ==
    [kind |-> "ok", stage |-> "", err |-> None, value |-> value, text |-> text]

NoResult == [kind |-> "none", stage |-> "", err |-> None, value |-> None, text |-> <<>>]

\* The emitter stage of Compiler::compile: the chunk of a tree, or its error.
compile_emitted(node, compiled) ==
    IF compiled.ok
    THEN [ok |-> TRUE, ast |-> Some(node), chunk |-> compiled.chunk]
    ELSE [ok |-> FALSE, ast |-> Some(node), failure |-> Failure("err", "Compiler", compiled)]

\* Compiler::compile once the parser has returned.
compile_parsed(parsed) ==
    IF ~parsed.ok
    THEN [ok |-> FALSE, ast |-> None,
          failure |-> Failure(IF parsed.kind = "todo" THEN "panic" ELSE "err", "Parser", parsed)]
    ELSE compile_emitted(parsed.node, compile_ast(parsed.node, ChunkNew))

\* The parser and emitter stages of Compiler::compile, from the token stream on.
compile_tokens(tokens) == compile_parsed(parse(tokens))

\* Mutant: the lexer's error is not returned and the parser runs on a stream
\* that lacks what was not scanned.
compile_lexed_no_return(lexed) ==
    IF ~lexed.ok THEN compile_tokens(<<>>) ELSE compile_tokens(lexed.lexer.tokens)

\* Compiler::compile once the lexer has returned.
compile_lexed(lexed) ==
    IF ~lexed.ok
    THEN [ok |-> FALSE, ast |-> None, failure |-> Failure("err", "Lexer", lexed)]
    ELSE compile_tokens(lexed.lexer.tokens)

\* Compiler::new().compile(input)
compile(input) == compile_lexed(tokenize(input))

(***************************************************************************)
(* interpreter.rs                                                          *)
(***************************************************************************)
\* struct Interpreter
Interpreter(vs, st, i) == [variables |-> vs, stack |-> st, ip |-> i]

EmptyMap == [name \in {} |-> NaN]

\* HashMap::insert
insert(map, key, value) ==
    [k \in DOMAIN map \cup {key} |-> IF k = key THEN value ELSE map[k]]

\* Vec::pop on the stack: the stack without its last element.
Popped(st) == SubSeq(st, 1, Len(st) - 1)

Top(st) == st[Len(st)]

Continue(vm) == [status |-> "continue", vm |-> vm, err |-> ""]

RuntimeError(vm, err) == [status |-> "err", vm |-> vm, err |-> err]

Panic(vm, err) == [status |-> "panic", vm |-> vm, err |-> err]

\* Mutant: the operands are popped left first, then right.
interpret_binary_op_swapped(v, op_code) ==
    IF Len(v.stack) >= 2 /\ Top(v.stack).type = "Number" /\ Top(Popped(v.stack)).type = "Number"
    THEN LET l == Top(v.stack).num
             r == Top(Popped(v.stack)).num
             rest == Popped(Popped(v.stack))
             value == CASE op_code = OpAdd -> FAdd(l, r)
                        [] op_code = OpSubtract -> FSub(l, r)
                        [] op_code = OpDivide -> FDiv(l, r)
                        [] OTHER -> FMul(l, r)
         IN  Continue(Interpreter(v.variables, Append(rest, Number(value)), v.ip + 1))
    ELSE RuntimeError(Interpreter(v.variables, <<>>, v.ip), "ExpectedOperand")

interpret_binary_op(vm, op_code) ==
    LET right == IF Len(vm.stack) >= 1 THEN Some(Top(vm.stack)) ELSE None
        rest == IF Len(vm.stack) >= 1 THEN Popped(vm.stack) ELSE vm.stack
        left == IF Len(rest) >= 1 THEN Some(Top(rest)) ELSE None
        rest2 == IF Len(rest) >= 1 THEN Popped(rest) ELSE rest
        popped == Interpreter(vm.variables, rest2, vm.ip)
    IN  IF right # None /\ left # None /\ right[1].type = "Number" /\ left[1].type = "Number"
        THEN LET l == left[1].num
                 r == right[1].num
             IN  CASE op_code = OpAdd ->
                        Continue(Interpreter(vm.variables, Append(rest2, Number(FAdd(l, r))), vm.ip + 1))
                   [] op_code = OpSubtract ->
                        Continue(Interpreter(vm.variables, Append(rest2, Number(FSub(l, r))), vm.ip + 1))
                   [] op_code = OpDivide ->
                        Continue(Interpreter(vm.variables, Append(rest2, Number(FDiv(l, r))), vm.ip + 1))
                   [] op_code = OpMultiply ->
                        Continue(Interpreter(vm.variables, Append(rest2, Number(FMul(l, r))), vm.ip + 1))
                   [] OTHER -> RuntimeError(popped, "InvalidBinaryOperator")
        ELSE RuntimeError(popped, "ExpectedOperand")

\* chunk.code[self.ip + 1] and chunk.constants[constant_idx]: None when either
\* index is out of bounds (the indexing panics).
Operand(c, vm) ==
    IF vm.ip + 1 < Len(c.code) /\ c.code[vm.ip + 2] < Len(c.constants)
    THEN Some(c.constants[c.code[vm.ip + 2] + 1])
    ELSE None

\* Mutant: an assignment starts a new environment holding its binding only.
interpret_set_var_fresh_env(c, v) ==
    LET constant == Operand(c, v)
    IN  IF constant = None THEN Panic(v, "index out of bounds")
        ELSE IF constant[1].type # "String" THEN RuntimeError(v, "InvalidIdentifier")
        ELSE IF v.stack = <<>> THEN RuntimeError(v, "ExpectedExpression")
        ELSE Continue(Interpreter(insert(EmptyMap, constant[1].str, Top(v.stack)),
                                  Popped(v.stack), v.ip + 2))

\* Mutant: a bound name keeps its first value (insert only if absent).
interpret_set_var_keep_first(c, v) ==
    LET constant == Operand(c, v)
    IN  IF constant = None THEN Panic(v, "index out of bounds")
        ELSE IF constant[1].type # "String" THEN RuntimeError(v, "InvalidIdentifier")
        ELSE IF v.stack = <<>> THEN RuntimeError(v, "ExpectedExpression")
        ELSE Continue(Interpreter(IF constant[1].str \in DOMAIN v.variables
                                  THEN v.variables
                                  ELSE insert(v.variables, constant[1].str, Top(v.stack)),
                                  Popped(v.stack), v.ip + 2))

interpret_set_var(c, vm) ==
    LET constant == Operand(c, vm)
    IN  IF constant = None THEN Panic(vm, "index out of bounds")
        ELSE IF constant[1].type # "String" THEN RuntimeError(vm, "InvalidIdentifier")
        ELSE IF vm.stack = <<>> THEN RuntimeError(vm, "ExpectedExpression")
        ELSE Continue(Interpreter(insert(vm.variables, constant[1].str, Top(vm.stack)),
                                  Popped(vm.stack), vm.ip + 2))

interpret_get_var(c, vm) ==
    LET constant == Operand(c, vm)
    IN  IF constant = None THEN Panic(vm, "index out of bounds")
        ELSE IF constant[1].type # "String" THEN RuntimeError(vm, "InvalidIdentifier")
        ELSE IF constant[1].str \notin DOMAIN vm.variables
        THEN RuntimeError(vm, "UninitialisedVariable")
        ELSE Continue(Interpreter(vm.variables,
                                  Append(vm.stack, vm.variables[constant[1].str]), vm.ip + 2))

interpret_constant(c, vm) ==
    LET constant == Operand(c, vm)
    IN  IF constant = None THEN Panic(vm, "index out of bounds")
        ELSE Continue(Interpreter(vm.variables, Append(vm.stack, constant[1]), vm.ip + 2))

interpret_negate(vm) ==
    IF vm.stack = <<>> THEN RuntimeError(vm, "ExpectedOperand")
    ELSE LET operand == Top(vm.stack)
             popped == Interpreter(vm.variables, Popped(vm.stack), vm.ip + 1)
         IN  IF operand.type = "Number"
             THEN Continue(Interpreter(vm.variables,
                                       Append(Popped(vm.stack), Number(FNeg(operand.num))),
                                       vm.ip + 1))
             ELSE Panic(popped, "todo")

\* One iteration of the while loop of interpret_chunk.
Dispatch(c, vm) ==
    LET op_code == from_usize(c.code[vm.ip + 1])
    IN  IF op_code = None THEN RuntimeError(vm, "InvalidOpCode")
        ELSE CASE op_code[1] = OpConstant -> interpret_constant(c, vm)
               [] op_code[1] = OpNegate -> interpret_negate(vm)
               [] op_code[1] \in {OpAdd, OpSubtract, OpMultiply, OpDivide} ->
                    interpret_binary_op(vm, op_code[1])
               [] op_code[1] = OpSetVar -> interpret_set_var(c, vm)
               [] op_code[1] = OpGetVar -> interpret_get_var(c, vm)

\* Mutant: the first residual value is the result however many there are.
Residual_first_of_many(st) ==
    IF Len(st) >= 1 THEN [ok |-> TRUE, value |-> Some(st[1])]
    ELSE [ok |-> TRUE, value |-> None]

\* The end of interpret_chunk: the residual check.
Residual(st) ==
    IF Len(st) > 1 THEN [ok |-> FALSE, err |-> "IncompleteExpression"]
    ELSE IF Len(st) = 1 THEN [ok |-> TRUE, value |-> Some(st[1])]
    ELSE [ok |-> TRUE, value |-> None]

\* The match on the result of interpret_chunk in Interpreter::interpret.
InterpretResult(value) ==
    IF value = None THEN Success(value, <<>>)
    ELSE IF value[1].type = "Number" THEN Success(value, to_string(value[1].num))
    ELSE Failure("panic", "Runtime", "todo")

(***************************************************************************)
(* The session: one Interpreter, fed one submission after the other.       *)
(*   variables, stack, ip   the fields of struct Interpreter               *)
(*   chunk                  the chunk interpret_chunk is executing         *)
(*   pc                     "idle" between calls, "running" inside the     *)
(*                          loop of interpret_chunk, "aborted" on a panic  *)
(*   source                 the submission of the current or last call     *)
(*   ast                    the tree its parse returned, if any            *)
(*   result                 what the last finished call returned           *)
(*   entry                  the Interpreter as the current or last call    *)
(*                          found it                                       *)
(*   calls                  the number of calls made                       *)
(*   writes                 history: per name, the value of the last       *)
(*                          SetVar that completed                          *)
(*   lexer                  the fields of the Lexer while tokenize runs    *)
(*   lines                  the Repl's pending-input buffer                *)
(*   host                   the Repl: its evaluator and where its loop is  *)
(*                          (at); history: the lines read since the buffer *)
(*                          was last cleared (read), what the last line    *)
(*                          led to (last), the number of lines read (n)    *)
(***************************************************************************)
vm == Interpreter(variables, stack, ip)

Alphabet == {"1", "2", "+", "-", "*", "/", "(", ")", ";", " ", ".", "\n", "x", "="}

RECURSIVE TextsUpTo(_)
TextsUpTo(k) ==
    IF k = 0 THEN {<<>>}
    ELSE LET shorter == TextsUpTo(k - 1)
         IN  shorter \cup {Append(t, ch) : t \in shorter, ch \in Alphabet}

T_1p2m3s == <<"1", " ", "+", " ", "2", " ", "*", " ", "3", ";">>
T_1p2m3 == <<"1", " ", "+", " ", "2", " ", "*", " ", "3">>
T_neg31s == <<"-", "(", "3", " ", "-", " ", "1", ")", ";">>
T_neg31 == <<"-", "(", "3", " ", "-", " ", "1", ")">>
T_letx == <<"l", "e", "t", " ", "x", " ", "=", " ", "5", ";", " ", "x", " ", "+", " ", "1", ";">>
T_y == <<"y", ";">>
T_unclosed == <<"(", "1", " ", "+", " ", "2", ";">>
T_noright == <<"1", " ", "+", ";">>
T_div == <<"8", " ", "/", " ", "4", " ", "/", " ", "2">>
T_mul == <<"2", " ", "*", " ", "3", " ", "*", " ", "4">>
T_add == <<"1", " ", "+", " ", "2", " ", "+", " ", "3">>
T_sub == <<"5", "-", "2">>
T_half == <<"1", "/", "2">>
T_both == <<"+", " ", "x">>

Scenarios ==
    {T_1p2m3s, T_1p2m3, T_neg31s, T_neg31, T_letx, T_y, T_unclosed, T_noright,
     T_div, T_mul, T_add, T_sub, T_half, T_both}

\* The texts submitted: the scenarios and every text of at most k characters.
Texts(k) == Scenarios \cup TextsUpTo(k)

\* No Repl: interpret, the parser or interpret_chunk is called directly.
NoHost == [evaluator |-> "none", at |-> "none", read |-> <<>>, last |-> "none", n |-> 0]

Init ==
    /\ variables = EmptyMap
    /\ stack = <<>>
    /\ ip = 0
    /\ chunk = ChunkNew
    /\ pc = "idle"
    /\ source = [level |-> "none", input |-> <<>>]
    /\ ast = None
    /\ result = NoResult
    /\ entry = Interpreter(EmptyMap, <<>>, 0)
    /\ calls = 0
    /\ writes = EmptyMap
    /\ lexer = LexerNew
    /\ lines = <<>>
    /\ host = NoHost

\* Mutant: the operand stack of the previous call is not cleared.
Enter_keep_stack(c) ==
    /\ chunk' = c
    /\ stack' = stack
    /\ ip' = 0
    /\ pc' = "running"
    /\ UNCHANGED <<variables, result, writes>>

\* A call that has compiled its chunk enters interpret_chunk: the stack is
\* cleared and the instruction pointer reset (interpreter.rs 59-60).
Enter(c) ==
    /\ chunk' = c
    /\ stack' = <<>>
    /\ ip' = 0
    /\ pc' = "running"
    /\ UNCHANGED <<variables, result, writes>>

\* A call that fails before interpret_chunk leaves the Interpreter untouched.
Reject(failure) ==
    /\ result' = failure
    /\ pc' = IF failure.kind = "panic" THEN "aborted" ELSE "idle"
    /\ chunk' = ChunkNew
    /\ UNCHANGED <<variables, stack, ip, writes>>

\* Interpreter::interpret once Compiler::compile has returned: the error is
\* handed back, or interpret_chunk is entered.
Compiled(compiled) ==
    /\ ast' = compiled.ast
    /\ IF compiled.ok THEN Enter(compiled.chunk) ELSE Reject(compiled.failure)

\* Interpreter::interpret(input), up to the entry of the loop of interpret_chunk.
Interpret(input) ==
    /\ pc = "idle"
    /\ calls < MaxCalls
    /\ calls' = calls + 1
    /\ source' = [level |-> "text", input |-> input]
    /\ entry' = vm
    /\ Compiled(compile(input))

\* One instruction of the loop of interpret_chunk.
InterpretStep ==
    /\ pc = "running"
    /\ ip < Len(chunk.code)
    /\ LET r == Dispatch(chunk, vm)
       IN  /\ variables' = r.vm.variables
           /\ stack' = r.vm.stack
           /\ ip' = r.vm.ip
           /\ pc' = CASE r.status = "continue" -> "running"
                      [] r.status = "err" -> "idle"
                      [] OTHER -> "aborted"
           /\ result' = CASE r.status = "continue" -> result
                          [] r.status = "err" -> Failure("err", "Runtime", r.err)
                          [] OTHER -> Failure("panic", "Runtime", r.err)
           /\ chunk' = IF r.status = "continue" THEN chunk ELSE ChunkNew
           /\ writes' = IF r.status = "continue" /\ chunk.code[ip + 1] = OpSetVar
                         THEN insert(writes, chunk.constants[chunk.code[ip + 2] + 1].str,
                                     Top(stack))
                         ELSE writes
    /\ UNCHANGED <<source, ast, entry, calls, lexer, lines, host>>

\* The instruction stream is exhausted: the residual check of interpret_chunk
\* and, in Interpreter::interpret, the rendering of its value.  The chunk, local
\* to the call, is dropped.
InterpretReturn ==
    /\ pc = "running"
    /\ ip >= Len(chunk.code)
    /\ LET r == Residual(stack)
       IN  /\ result' = IF ~r.ok THEN Failure("err", "Runtime", r.err)
                        ELSE IF source.level = "chunk" THEN Success(r.value, <<>>)
                        ELSE InterpretResult(r.value)
           /\ pc' = IF r.ok /\ source.level # "chunk" /\ InterpretResult(r.value).kind = "panic"
                    THEN "aborted" ELSE "idle"
    /\ chunk' = ChunkNew
    /\ UNCHANGED <<variables, stack, ip, source, ast, entry, calls, writes, lexer, lines, host>>

Next ==
    \/ pc = "idle" /\ UNCHANGED <<lexer, lines, host>>
          /\ \E input \in Texts(MaxText) : Interpret(input)
    \/ InterpretStep
    \/ InterpretReturn

Spec == Init /\ [][Next]_vars

(***************************************************************************)
(* The parser, the emitter and the VM on every short token stream: what    *)
(* Parser::new(tokens).parse() is given, the lexer's end-of-input token    *)
(* last.  One submission per behaviour, from each starting environment.    *)
(***************************************************************************)
TokenKinds ==
    {<<NumericLit, <<"1">>>>, <<NumericLit, <<"2">>>>, <<Identifier, <<"x">>>>,
     <<Plus, <<"+">>>>, <<Min, <<"-">>>>, <<Star, <<"*">>>>, <<Slash, <<"/">>>>,
     <<LeftParen, <<"(">>>>, <<RightParen, <<")">>>>, <<Semicolon, <<";">>>>,
     <<Let, <<"l", "e", "t">>>>, <<Eq, <<"=">>>>}

RECURSIVE KindsUpTo(_)
KindsUpTo(k) ==
    IF k = 0 THEN {<<>>}
    ELSE LET shorter == KindsUpTo(k - 1)
         IN  shorter \cup {Append(t, kind) : t \in shorter, kind \in TokenKinds}

\* The token stream of a sequence of kinds: one column per token, then EoF.
Stream(kinds) ==
    [i \in 1..(Len(kinds) + 1) |->
        IF i <= Len(kinds)
        THEN Token(kinds[i][1], kinds[i][2], TokenMeta(0, i - 1))
        ELSE Token(EoF, <<>>, TokenMeta(0, i - 1))]

Three == Number(F64(1, 3, 1))

\* The environments a submission starts from: empty, or x bound by an earlier
\* one, or x and a second name y bound by earlier ones.
Envs ==
    {EmptyMap, insert(EmptyMap, <<"x">>, Three),
     insert(insert(EmptyMap, <<"x">>, Three), <<"y">>, Number(F64(1, 1, 1)))}

InitEnv ==
    /\ variables \in Envs
    /\ stack = <<>>
    /\ ip = 0
    /\ chunk = ChunkNew
    /\ pc = "idle"
    /\ source = [level |-> "none", input |-> <<>>]
    /\ ast = None
    /\ result = NoResult
    /\ entry = Interpreter(variables, <<>>, 0)
    /\ calls = 0
    /\ writes = variables
    /\ lexer = LexerNew
    /\ lines = <<>>
    /\ host = NoHost

\* Compiler::compile from its parser stage on, then interpret_chunk.
InterpretTokens(tokens) ==
    /\ pc = "idle"
    /\ calls = 0
    /\ calls' = calls + 1
    /\ source' = [level |-> "tokens", input |-> tokens]
    /\ entry' = vm
    /\ Compiled(compile_tokens(tokens))
    /\ UNCHANGED <<lexer, lines, host>>

NextTokens ==
    \/ pc = "idle" /\ calls = 0 /\ \E kinds \in KindsUpTo(MaxToks) : InterpretTokens(Stream(kinds))
    \/ InterpretStep
    \/ InterpretReturn

SpecTokens == InitEnv /\ [][NextTokens]_vars

(***************************************************************************)
(* interpret_chunk on every short chunk over one constant pool, call after *)
(* call on one Interpreter: the chunks the emitter produces and the ones   *)
(* it never does (an empty stack under an operator, an operand that is no  *)
(* name, an unknown opcode, a missing operand).                            *)
(***************************************************************************)
Pool == <<Number(F64(1, 1, 1)), Number(F64(1, 2, 1)), String(<<"x">>)>>

Instructions ==
    {<<OpConstant, 0>>, <<OpConstant, 1>>, <<OpConstant, 2>>,
     <<OpSubtract>>, <<OpNegate>>,
     <<OpSetVar, 2>>, <<OpSetVar, 0>>, <<OpGetVar, 2>>, <<OpGetVar, 1>>,
     <<OpGetVar + 1>>, <<OpSetVar>>}

RECURSIVE CodesUpTo(_)
CodesUpTo(k) ==
    IF k = 0 THEN {<<>>}
    ELSE LET shorter == CodesUpTo(k - 1)
         IN  shorter \cup {code \o instr : code \in shorter, instr \in Instructions}

\* interpret_chunk(chunk), up to the entry of its loop.
InterpretChunk(c) ==
    /\ pc = "idle"
    /\ calls < MaxCalls
    /\ calls' = calls + 1
    /\ source' = [level |-> "chunk", input |-> <<>>]
    /\ entry' = vm
    /\ ast' = None
    /\ Enter(c)
    /\ UNCHANGED <<lexer, lines, host>>

NextVM ==
    \/ pc = "idle" /\ calls < MaxCalls /\ \E code \in CodesUpTo(MaxCode) : InterpretChunk(Chunk(code, Pool, <<>>))
    \/ InterpretStep
    \/ InterpretReturn

SpecVM == InitEnv /\ [][NextVM]_vars

(***************************************************************************)
(* Reference semantics: the parsed tree evaluated node by node.            *)
(***************************************************************************)
RECURSIVE Evaluate(_, _)
Evaluate(node, env) ==
    CASE node.type = "NumericLit" -> [kind |-> "value", value |-> node.value]
      [] node.type = "VariableAccessExpr" ->
           IF node.identifier \in DOMAIN env
           THEN [kind |-> "value", value |-> env[node.identifier].num]
           ELSE [kind |-> "unbound"]
      [] node.type = "Expr" -> Evaluate(node.expr, env)
      [] node.type = "UnaryExpr" ->
           LET operand == Evaluate(node.operand, env)
           IN  IF operand.kind = "value"
               THEN [kind |-> "value", value |-> FNeg(operand.value)]
               ELSE operand
      [] node.type = "BinaryExpr" ->
           LET left == Evaluate(node.left, env)
               right == Evaluate(node.right, env)
               class == node.token.token_class
           IN  IF left.kind # "value" THEN left
               ELSE IF right.kind # "value" THEN right
               ELSE [kind |-> "value",
                     value |-> CASE class = Plus -> FAdd(left.value, right.value)
                                 [] class = Min -> FSub(left.value, right.value)
                                 [] class = Star -> FMul(left.value, right.value)
                                 [] class = Slash -> FDiv(left.value, right.value)]
      [] node.type = "VariableAssignmentStmt" ->
           LET expression == Evaluate(node.expression, env)
           IN  IF expression.kind = "value"
               THEN [kind |-> "none",
                     env |-> insert(env, node.identifier, Number(expression.value))]
               ELSE expression

\* A call on a token stream has returned.
Returned == source.level = "tokens" /\ pc # "running"

Kinds(tokens) == [i \in 1..(Len(tokens) - 1) |-> tokens[i].token_class]

IsAtom(token) == token.token_class[1] = "Atom"

\* The leaf the parser builds for an atom token.
Leaf(token) ==
    IF token.token_class = NumericLit
    THEN NumericLitNode(token, ParseF64(token.lexeme))
    ELSE VariableAccessExpr(token, token.lexeme)

One == F64(1, 1, 1)

Two == F64(1, 2, 1)

(***************************************************************************)
(* C1: for every token stream the parser accepts, executing the compiled   *)
(* chunk returns what evaluating the parsed tree node by node gives from   *)
(* the environment the call started with: the same value, the same "no     *)
(* result" with the same new binding, or the same uninitialised-variable   *)
(* failure.                                                                *)
(***************************************************************************)
C1_ExecuteMatchesTree ==
    (Returned /\ ast # None) =>
        LET expected == Evaluate(ast[1], entry.variables)
        IN  CASE expected.kind = "value" ->
                   /\ result.kind = "ok"
                   /\ result.value = Some(Number(expected.value))
                   /\ variables = entry.variables
              [] expected.kind = "none" ->
                   /\ result.kind = "ok"
                   /\ result.value = None
                   /\ variables = expected.env
              [] expected.kind = "unbound" ->
                   /\ result.kind = "err"
                   /\ result.stage = "Runtime"
                   /\ result.err = "UninitialisedVariable"
                   /\ variables = entry.variables

\* "1 - x" has returned -2 from the environment that binds x to 3.
C1_Witness ==
    /\ Returned
    /\ ast # None
    /\ Kinds(source.input) = <<NumericLit, Min, Identifier>>
    /\ source.input[1].lexeme = <<"1">>
    /\ result.kind = "ok"
    /\ result.value = Some(Number(F64(-1, 2, 1)))

(***************************************************************************)
(* C2: a step of Add, Subtract, Multiply or Divide on a stack that ends in *)
(* the numbers a, b replaces them by a op b (a the deeper one) and         *)
(* advances the instruction pointer by one.                                *)
(***************************************************************************)
C2_BinaryOperandOrder ==
    [][(/\ pc = "running"
        /\ ip < Len(chunk.code)
        /\ chunk.code[ip + 1] \in {OpAdd, OpSubtract, OpMultiply, OpDivide}
        /\ Len(stack) >= 2
        /\ stack[Len(stack)].type = "Number"
        /\ stack[Len(stack) - 1].type = "Number")
       => LET a == stack[Len(stack) - 1].num
              b == stack[Len(stack)].num
              value == CASE chunk.code[ip + 1] = OpAdd -> FAdd(a, b)
                         [] chunk.code[ip + 1] = OpSubtract -> FSub(a, b)
                         [] chunk.code[ip + 1] = OpMultiply -> FMul(a, b)
                         [] chunk.code[ip + 1] = OpDivide -> FDiv(a, b)
          IN  /\ stack' = Append(SubSeq(stack, 1, Len(stack) - 2), Number(value))
              /\ ip' = ip + 1
              /\ pc' = "running"]_vars

\* Divide has just run on [3, 1, 2] and left [3, 1/2]: the chunk of "x + 1 / 2"
\* behind its Divide.
C2_Witness ==
    /\ pc = "running"
    /\ source.level = "tokens"
    /\ Kinds(source.input) = <<Identifier, Plus, NumericLit, Slash, NumericLit>>
    /\ ip = 7
    /\ chunk.code[ip] = OpDivide
    /\ stack = <<Three, Number(F64(1, 1, 2))>>

(***************************************************************************)
(* C3: a GetVar of a name that no completed SetVar has written fails with  *)
(* UninitialisedVariable; a GetVar of a written name pushes the value of   *)
(* the last completed SetVar of that name, over any sequence of calls.     *)
(***************************************************************************)
C3_ReadSeesLastWrite ==
    [][(/\ pc = "running"
        /\ ip < Len(chunk.code)
        /\ chunk.code[ip + 1] = OpGetVar
        /\ Operand(chunk, vm) # None
        /\ Operand(chunk, vm)[1].type = "String")
       => LET name == Operand(chunk, vm)[1].str
          IN  IF name \in DOMAIN writes
              THEN /\ pc' = "running"
                   /\ stack' = Append(stack, writes[name])
              ELSE /\ pc' = "idle"
                   /\ result'.kind = "err"
                   /\ result'.err = "UninitialisedVariable"]_vars

\* The second call has read x after the first call overwrote its starting value.
C3_Witness ==
    /\ pc = "running"
    /\ source.level = "chunk"
    /\ calls = 2
    /\ chunk.code = <<OpGetVar, 2>>
    /\ ip = 2
    /\ stack = <<Number(Two)>>
    /\ writes[<<"x">>] = Number(Two)

(***************************************************************************)
(* C4: a call enters interpret_chunk with an empty stack, instruction      *)
(* pointer 0 and the environment the previous call left; no step ever      *)
(* removes a binding.                                                      *)
(***************************************************************************)
C4_CallResetsStackKeepsEnv ==
    [][/\ (pc = "idle" /\ pc' = "running")
            => (stack' = <<>> /\ ip' = 0 /\ variables' = variables)
       /\ \A name \in DOMAIN variables : name \in DOMAIN variables']_vars

\* A call has just started after a call that failed with a value on the stack
\* and after x was bound.
C4_Witness ==
    /\ pc = "running"
    /\ source.level = "chunk"
    /\ calls = 2
    /\ ip = 0
    /\ stack = <<>>
    /\ entry.stack # <<>>
    /\ result.kind = "err"
    /\ <<"x">> \in DOMAIN variables
    /\ variables = entry.variables

\* A call on the text `input` has returned.
ReturnedOn(input) == source.level = "text" /\ source.input = input /\ pc # "running"

(***************************************************************************)
(* C5 as stated: "1 + 2 * 3;" returns the result "7" and "-(3 - 1);" the   *)
(* result "-2".                                                            *)
(***************************************************************************)
C5_Original ==
    /\ ReturnedOn(T_1p2m3s) => (result.kind = "ok" /\ result.text = <<"7">>)
    /\ ReturnedOn(T_neg31s) => (result.kind = "ok" /\ result.text = <<"-", "2">>)

(***************************************************************************)
(* C5 amended: one expression with no ';' behind it is accepted and        *)
(* returns its value, "1 + 2 * 3" the result "7" (star binds tighter than  *)
(* plus) and "-(3 - 1)" the result "-2"; with the ';' appended the parse   *)
(* fails with ExpectedEoF at the ';' token.                                *)
(***************************************************************************)
C5_ExpressionWithoutSemicolon ==
    /\ ReturnedOn(T_1p2m3) => (result.kind = "ok" /\ result.text = <<"7">>)
    /\ ReturnedOn(T_neg31) => (result.kind = "ok" /\ result.text = <<"-", "2">>)
    /\ \A input \in {T_1p2m3s, T_neg31s} :
          ReturnedOn(input) =>
              /\ result.kind = "err"
              /\ result.stage = "Parser"
              /\ result.err.kind = "ExpectedEoF"
              /\ result.err.token[1].token_class = Semicolon
              /\ result.err.token[1].meta = TokenMeta(0, Len(input) - 1)

\* "1 + 2 * 3" has returned "7".
C5_Witness == ReturnedOn(T_1p2m3) /\ result.kind = "ok" /\ result.text = <<"7">>

(***************************************************************************)
(* C6: "let x = 5; x + 1;" binds x to 5 and returns the result "6".        *)
(***************************************************************************)
C6_LetThenExpression ==
    ReturnedOn(T_letx) =>
        /\ result.kind = "ok"
        /\ result.text = <<"6">>
        /\ <<"x">> \in DOMAIN variables
        /\ variables[<<"x">>] = Number(F64(1, 5, 1))

(***************************************************************************)
(* C7: for op among star, slash and plus, the stream a op b op c of atoms  *)
(* parses to BinaryExpr(op, BinaryExpr(op, a, b), c).                      *)
(***************************************************************************)
C7_LeftAssociative ==
    \A op \in {Star, Slash, Plus} :
        (/\ source.level = "tokens"
         /\ Len(source.input) = 6
         /\ IsAtom(source.input[1]) /\ IsAtom(source.input[3]) /\ IsAtom(source.input[5])
         /\ source.input[2].token_class = op
         /\ source.input[4].token_class = op)
        => ast = Some(BinaryExpr(source.input[4],
                                 BinaryExpr(source.input[2], Leaf(source.input[1]),
                                            Leaf(source.input[3])),
                                 Leaf(source.input[5])))

(***************************************************************************)
(* C8: "y;" passes the lexer and the parser, which builds a                *)
(* VariableAccessExpr, and fails at execution with UninitialisedVariable.  *)
(***************************************************************************)
C8_UnboundIdentifier ==
    ReturnedOn(T_y) =>
        /\ ast # None
        /\ ast[1].type = "VariableAccessExpr"
        /\ result.kind = "err"
        /\ result.stage = "Runtime"
        /\ result.err = "UninitialisedVariable"

\* The tokens before position i (0-based) are all prefix operators, so the
\* parser reaches position i through parse_expr.
PrefixOnly(tokens, i) == \A j \in 1..i : tokens[j].token_class \in {Min, LeftParen}

(***************************************************************************)
(* C9: when the expression behind a '(' parses and the token after it is   *)
(* not ')', the parse fails with UnclosedExpression and the error carries  *)
(* the opening '(' token.                                                  *)
(***************************************************************************)
C9_UnclosedExpression ==
    source.level = "tokens" =>
        \A i \in 1..Len(source.input) :
            LET tokens == source.input
                inner == parse_expr(tokens, i, 0)
            IN  (/\ tokens[i].token_class = LeftParen
                 /\ PrefixOnly(tokens, i - 1)
                 /\ inner.ok
                 /\ tokens[inner.pos + 1].token_class # RightParen)
                => /\ result.kind = "err"
                   /\ result.stage = "Parser"
                   /\ result.err.kind = "UnclosedExpression"
                   /\ result.err.token = Some(tokens[i])

\* "(1 + 2;" has failed with the '(' in the error.
C9_Witness ==
    /\ Returned
    /\ Kinds(source.input) = <<LeftParen, NumericLit, Plus, NumericLit, Semicolon>>
    /\ result.kind = "err"
    /\ result.err.kind = "UnclosedExpression"
    /\ result.err.token[1].meta.col = 0

(***************************************************************************)
(* C10: an atom, a binary operator and a ';' directly behind it fail the   *)
(* parse with an error whose token is that ';'.                            *)
(***************************************************************************)
C10_MissingRightOperand ==
    (/\ source.level = "tokens"
     /\ Len(source.input) >= 4
     /\ IsAtom(source.input[1])
     /\ source.input[2].token_class \in {Plus, Min, Star, Slash}
     /\ source.input[3].token_class = Semicolon)
    => /\ result.kind = "err"
       /\ result.stage = "Parser"
       /\ result.err.kind = "UnexpectedToken"
       /\ result.err.token = Some(source.input[3])

\* "1 +;" has failed with the ';' in the error.
C10_Witness ==
    /\ Returned
    /\ Kinds(source.input) = <<NumericLit, Plus, Semicolon>>
    /\ result.kind = "err"
    /\ result.err.token[1].token_class = Semicolon

(***************************************************************************)
(* C11: every submitted text ends with a result or with an error value     *)
(* that names the failing stage; no text makes a stage abort the process,  *)
(* so the session can always take a further submission.                    *)
(***************************************************************************)
C11_NoStageAborts ==
    /\ pc # "aborted"
    /\ result.kind \in {"none", "ok", "err"}
    /\ result.kind = "err" => result.stage \in {"Lexer", "Parser", "Compiler", "Runtime"}

\* The characters tokenize has an arm for; '.' only inside a numeric literal.
LexerChars == {" ", "\n", ";", "(", ")", "+", "-", "/", "*", "."} \cup {Digits[i] : i \in 1..Len(Digits)}

RECURSIVE WellFormedFrom(_, _)
WellFormedFrom(c, i) ==
    IF i >= Len(c.code) THEN TRUE
    ELSE IF c.code[i + 1] \in {OpConstant, OpSetVar, OpGetVar}
    THEN /\ i + 1 < Len(c.code)
         /\ c.code[i + 2] \in 0..(Len(c.constants) - 1)
         /\ WellFormedFrom(c, i + 2)
    ELSE /\ c.code[i + 1] \in {OpAdd, OpSubtract, OpMultiply, OpDivide, OpNegate}
         /\ WellFormedFrom(c, i + 1)

(***************************************************************************)
(* C13: in every chunk the emitter produces from a parsed token stream,    *)
(* each Constant, SetVar and GetVar is followed by exactly one operand     *)
(* word, that word is a valid index into the chunk's constant pool, and    *)
(* the instruction stream does not end directly behind such an opcode.     *)
(***************************************************************************)
C13_OperandsInRange ==
    source.level = "tokens" =>
        /\ WellFormedFrom(chunk, 0)
        /\ Len(chunk.tokens) = Len(chunk.code)

\* The chunk of "let x = 1;", Constant 0 then SetVar 1 over a pool of two, is
\* being executed.
C13_Witness ==
    /\ source.level = "tokens"
    /\ pc = "running"
    /\ Kinds(source.input) = <<Let, Identifier, Eq, NumericLit, Semicolon>>
    /\ chunk.code = <<OpConstant, 0, OpSetVar, 1>>
    /\ Len(chunk.constants) = 2

\* The operators of a tree are the ones the emitter has an instruction for:
\* minus on every unary node; plus, minus, star or slash on every binary node.
RECURSIVE KnownOperators(_)
KnownOperators(node) ==
    CASE node.type = "UnaryExpr" ->
           node.token.token_class = Min /\ KnownOperators(node.operand)
      [] node.type = "BinaryExpr" ->
           /\ node.token.token_class \in {Plus, Min, Star, Slash}
           /\ KnownOperators(node.left)
           /\ KnownOperators(node.right)
      [] node.type = "Expr" -> KnownOperators(node.expr)
      [] node.type = "VariableAssignmentStmt" -> KnownOperators(node.expression)
      [] OTHER -> TRUE

(***************************************************************************)
(* C14: the tree of every token stream the parser accepts has minus on     *)
(* each unary node and plus, minus, star or slash on each binary node, so  *)
(* the emitter succeeds on it: no call ends with UnsupportedToken,         *)
(* UnsupportedBinaryOperator or ExpectedOpNode.                            *)
(***************************************************************************)
C14_ParsedTreeCompiles ==
    (source.level = "tokens" /\ ast # None) =>
        /\ KnownOperators(ast[1])
        /\ compile_ast(ast[1], ChunkNew).ok
        /\ ~(result.kind = "err" /\ result.stage = "Compiler")

\* "-1 * 2" has parsed to a binary node over a unary node and has been
\* executed.
C14_Witness ==
    /\ Returned
    /\ Kinds(source.input) = <<Min, NumericLit, Star, NumericLit>>
    /\ ast # None
    /\ ast[1].type = "BinaryExpr"
    /\ ast[1].left.type = "UnaryExpr"
    /\ result.kind = "ok"

\* The instructions of chunk c from word i (0-based) on, each operand word
\* replaced by the constant it indexes, so that chunks over different pools
\* compare.
RECURSIVE Resolved(_, _)
Resolved(c, i) ==
    IF i >= Len(c.code) THEN <<>>
    ELSE IF /\ c.code[i + 1] \in {OpConstant, OpSetVar, OpGetVar}
            /\ i + 1 < Len(c.code)
            /\ c.code[i + 2] \in 0..(Len(c.constants) - 1)
    THEN <<[op |-> c.code[i + 1], operand |-> Some(c.constants[c.code[i + 2] + 1])]>>
         \o Resolved(c, i + 2)
    ELSE <<[op |-> c.code[i + 1], operand |-> None]>> \o Resolved(c, i + 1)

\* Short value expressions, as token kinds.
ValueExpressions ==
    {<<k>> : k \in {<<NumericLit, <<"1">>>>, <<NumericLit, <<"2">>>>, <<Identifier, <<"x">>>>}}
    \cup {<<<<Min, <<"-">>>>, k>> :
            k \in {<<NumericLit, <<"1">>>>, <<NumericLit, <<"2">>>>, <<Identifier, <<"x">>>>}}

\* What the emitter produces for the token stream of these kinds.
Emitted(kinds) == compile_tokens(Stream(kinds)).chunk

\* The chunks of the statements "let x = e;" and of the expressions "e".
StatementCodes ==
    {Resolved(Emitted(<<<<Let, <<"l", "e", "t">>>>, <<Identifier, <<"x">>>>, <<Eq, <<"=">>>>>>
                       \o e \o <<<<Semicolon, <<";">>>>>>), 0) : e \in ValueExpressions}

ExpressionCodes == {Resolved(Emitted(e), 0) : e \in ValueExpressions}

(***************************************************************************)
(* C15: when interpret_chunk has exhausted the instruction stream, the     *)
(* outcome follows from the number of values left on the stack alone: more *)
(* than one is IncompleteExpression, exactly one is returned as the        *)
(* result, none is a successful "no result".  The chunk of an assignment   *)
(* statement ends with none, the chunk of an expression with one.          *)
(***************************************************************************)
C15_ResidualDecidesOutcome ==
    [][(pc = "running" /\ source.level = "chunk" /\ ip >= Len(chunk.code))
       => /\ Len(stack) > 1
               => result' = Failure("err", "Runtime", "IncompleteExpression") /\ pc' = "idle"
          /\ Len(stack) = 1 => result' = Success(Some(stack[1]), <<>>) /\ pc' = "idle"
          /\ Len(stack) = 0 => result' = Success(None, <<>>) /\ pc' = "idle"
          /\ Resolved(chunk, 0) \in StatementCodes => Len(stack) = 0
          /\ Resolved(chunk, 0) \in ExpressionCodes => Len(stack) = 1]_vars

\* The chunk of "let x = 2;" has run to its end with nothing left on the
\* stack and x bound to 2.
C15_Witness ==
    /\ pc = "running"
    /\ source.level = "chunk"
    /\ ip = Len(chunk.code)
    /\ Resolved(chunk, 0) \in StatementCodes
    /\ chunk.code = <<OpConstant, 1, OpSetVar, 2>>
    /\ stack = <<>>
    /\ variables[<<"x">>] = Number(Two)

(***************************************************************************)
(* repl.rs: Repl::start over an evaluator, which is the Interpreter        *)
(* (interpreter.rs 164-172) or the Printer of main.rs.  Each line read is  *)
(* appended to the buffer `lines`; the trimmed buffer is the submission.   *)
(***************************************************************************)
Whitespace == {" ", "\n"}

\* str::trim
RECURSIVE trim_start(_)
trim_start(text) ==
    IF text # <<>> /\ Head(text) \in Whitespace THEN trim_start(Tail(text)) ELSE text

RECURSIVE trim_end(_)
trim_end(text) ==
    IF text # <<>> /\ text[Len(text)] \in Whitespace
    THEN trim_end(SubSeq(text, 1, Len(text) - 1))
    ELSE text

trim(text) == trim_end(trim_start(text))

\* input.split("\n").last(): what stands behind the last newline.
RECURSIVE last_line(_)
last_line(text) ==
    IF \E i \in 1..Len(text) : text[i] = "\n" THEN last_line(Tail(text)) ELSE text

T_exit == <<"e", "x", "i", "t">>
T_kill == <<"k", "i", "l", "l">>
T_clear == <<"c", "l", "e", "a", "r">>

\* Result<EvaluatorOk, String>
EvaluatorClear(msg) == [kind |-> "Clear", msg |-> msg]

EvaluatorAppend(msg) == [kind |-> "Append", msg |-> msg]

EvaluatorErr(error) == [kind |-> "Err", msg |-> error]

\* impl Evaluator for Printer
printer_eval(input) ==
    IF input = <<>> THEN EvaluatorErr("empty string")
    ELSE IF last_line(input) = T_clear THEN EvaluatorClear("clearing buffer")
    ELSE EvaluatorAppend(input)

\* impl Evaluator for Interpreter, on what interpret returned.
eval(interpret_result) ==
    IF interpret_result.kind = "ok"
    THEN EvaluatorClear(interpret_result.text)
    ELSE EvaluatorErr(interpret_result)

\* Mutant: the buffer is kept when the evaluator fails.
handle_keep_on_error(buffer, outcome) ==
    IF outcome.kind = "Clear" THEN <<>> ELSE buffer

\* The match on the evaluator's outcome in Repl::start: the buffer after it.
handle(buffer, outcome) ==
    IF outcome.kind \in {"Clear", "Err"} THEN <<>> ELSE buffer

\* The lines typed, without their newline.
ReplLines ==
    {<<>>, <<" ">>, <<"1">>, <<"1", " ", "+">>, <<"x">>, <<";">>, T_clear, T_exit}

\* read_line: the buffer with the line and its newline appended.
read_line(buffer, line) == buffer \o line \o <<"\n">>

\* Repl::new over a fresh evaluator, at the first prompt.
InitRepl ==
    /\ variables = EmptyMap
    /\ stack = <<>>
    /\ ip = 0
    /\ chunk = ChunkNew
    /\ pc = "idle"
    /\ source = [level |-> "none", input |-> <<>>]
    /\ ast = None
    /\ result = NoResult
    /\ entry = Interpreter(EmptyMap, <<>>, 0)
    /\ calls = 0
    /\ writes = EmptyMap
    /\ lexer = LexerNew
    /\ lines = <<>>
    /\ \E e \in {"Printer", "Interpreter"} :
            host = [evaluator |-> e, at |-> "prompt", read |-> <<>>, last |-> "none", n |-> 0]

\* The Repl is at its prompt and takes a further line.
AtPrompt == host.at = "prompt" /\ pc = "idle" /\ host.n < MaxLines

\* The evaluator's fields, which the Repl does not touch.
evaluatorVars ==
    <<variables, stack, ip, chunk, pc, source, ast, result, entry, calls, writes, lexer>>

\* read_line returns 0 at the end of the input: the loop breaks.
ReplEndOfInput ==
    /\ host.at = "prompt"
    /\ pc = "idle"
    /\ host' = [host EXCEPT !.at = "terminated"]
    /\ UNCHANGED <<evaluatorVars, lines>>

\* A line that leaves the trimmed buffer empty: continue, the buffer kept.
ReplBlank(line) ==
    /\ AtPrompt
    /\ trim(read_line(lines, line)) = <<>>
    /\ lines' = read_line(lines, line)
    /\ host' = [host EXCEPT !.read = Append(@, line), !.last = "blank", !.n = @ + 1]
    /\ UNCHANGED evaluatorVars

\* The trimmed buffer is "exit" or "kill": the loop breaks.
ReplExit(line) ==
    /\ AtPrompt
    /\ trim(read_line(lines, line)) \in {T_exit, T_kill}
    /\ lines' = read_line(lines, line)
    /\ host' = [host EXCEPT !.at = "terminated", !.read = Append(@, line), !.n = @ + 1]
    /\ UNCHANGED evaluatorVars

\* One iteration over the Printer: eval on the trimmed buffer, then the match.
ReplPrinter(line) ==
    /\ AtPrompt
    /\ host.evaluator = "Printer"
    /\ trim(read_line(lines, line)) \notin {<<>>, T_exit, T_kill}
    /\ LET outcome == printer_eval(trim(read_line(lines, line)))
       IN  /\ lines' = handle(read_line(lines, line), outcome)
           /\ host' = [host EXCEPT !.read = IF outcome.kind = "Append"
                                             THEN Append(@, line) ELSE <<>>,
                                   !.last = outcome.kind, !.n = @ + 1]
    /\ UNCHANGED evaluatorVars

\* One iteration over the Interpreter, up to the call of eval, which calls
\* interpret on the trimmed buffer.
ReplInterpreter(line) ==
    /\ AtPrompt
    /\ host.evaluator = "Interpreter"
    /\ trim(read_line(lines, line)) \notin {<<>>, T_exit, T_kill}
    /\ lines' = read_line(lines, line)
    /\ host' = [host EXCEPT !.at = "eval", !.read = Append(@, line), !.n = @ + 1]
    /\ Interpret(trim(read_line(lines, line)))
    /\ UNCHANGED lexer

\* interpret has returned to eval and eval to the Repl: the match on its
\* outcome.  A call that panicked does not return.
ReplEvalReturn ==
    /\ host.at = "eval"
    /\ pc = "idle"
    /\ lines' = handle(lines, eval(result))
    /\ host' = [host EXCEPT !.at = "prompt",
                            !.read = IF eval(result).kind = "Append" THEN @ ELSE <<>>,
                            !.last = eval(result).kind]
    /\ UNCHANGED evaluatorVars

NextRepl ==
    \/ ReplEndOfInput
    \/ AtPrompt /\ \E line \in ReplLines : ReplBlank(line)
    \/ AtPrompt /\ \E line \in ReplLines : ReplExit(line)
    \/ AtPrompt /\ \E line \in ReplLines : ReplPrinter(line)
    \/ AtPrompt /\ \E line \in ReplLines : ReplInterpreter(line)
    \/ InterpretStep
    \/ InterpretReturn
    \/ ReplEvalReturn

SpecRepl == InitRepl /\ [][NextRepl]_vars

\* The lines of a history, each with its newline, as one text.
RECURSIVE Flatten(_)
Flatten(read) == IF read = <<>> THEN <<>> ELSE Head(read) \o <<"\n">> \o Flatten(Tail(read))

(***************************************************************************)
(* C16: whenever the Repl is back at its prompt, the buffer is empty if    *)
(* the last submission ended with a result marked Clear or with an error,  *)
(* and otherwise holds every line read since it was last cleared, in       *)
(* order.  The Interpreter never answers Append, so each text it is given  *)
(* is a single line.                                                       *)
(***************************************************************************)
C16_HostObeysInstruction ==
    /\ (host.at = "prompt" /\ host.last \in {"Clear", "Err"}) => lines = <<>>
    /\ (host.at = "prompt" /\ host.last = "Append")
          => host.read # <<>> /\ lines = Flatten(host.read)
    /\ host.at \in {"prompt", "eval"} => lines = Flatten(host.read)
    /\ host.evaluator = "Interpreter"
          => /\ host.last # "Append"
             /\ \A i \in 1..Len(source.input) : source.input[i] # "\n"

\* The Printer has answered Append twice and the buffer holds both lines.
C16_Witness ==
    /\ host.evaluator = "Printer"
    /\ host.at = "prompt"
    /\ host.last = "Append"
    /\ host.read = <<<<"1">>, <<"x">>>>
    /\ lines = <<"1", "\n", "x", "\n">>

(***************************************************************************)
(* Lexer::tokenize iteration by iteration on every short text: `lexer`     *)
(* holds the fields of the Lexer, `source` its input, pc is "lexing" while *)
(* the loop runs.  One text per behaviour.                                 *)
(***************************************************************************)
LexAlphabet == {"1", "2", ".", " ", "\n", "+", "(", "=", "x", ";"}

RECURSIVE LexTextsUpTo(_)
LexTextsUpTo(k) ==
    IF k = 0 THEN {<<>>}
    ELSE LET shorter == LexTextsUpTo(k - 1)
         IN  shorter \cup {Append(t, ch) : t \in shorter, ch \in LexAlphabet}

T_let == <<"l", "e", "t">>
T_dots == <<"1", ".", "2", ".", "3">>
T_ops == <<"(", "-", "/", "*", ")">>

\* The texts tokenized: every text of at most k characters, and a few more.
LexTexts(k) == LexTextsUpTo(k) \cup {T_let, T_dots, T_ops, T_letx}

\* Lexer::new(input)
LexerStart(input) ==
    /\ pc = "idle"
    /\ calls = 0
    /\ calls' = calls + 1
    /\ source' = [level |-> "lexer", input |-> input]
    /\ lexer' = LexerNew
    /\ pc' = "lexing"
    /\ UNCHANGED <<variables, stack, ip, chunk, ast, result, entry, writes, lines, host>>

\* One iteration of the while loop of tokenize; an error ends the call.
TokenizeStep ==
    /\ pc = "lexing"
    /\ lexer.pos < Len(source.input)
    /\ IF LexDispatch(source.input, lexer).ok
       THEN /\ lexer' = LexDispatch(source.input, lexer).lexer
            /\ UNCHANGED <<pc, result>>
       ELSE /\ result' = Failure("err", "Lexer", LexDispatch(source.input, lexer))
            /\ pc' = "idle"
            /\ UNCHANGED lexer
    /\ UNCHANGED <<variables, stack, ip, chunk, source, ast, entry, calls, writes, lines, host>>

\* Mutant: the end-of-input token is pushed only behind another token.
TokenizeEnd_only_behind_a_token ==
    /\ pc = "lexing"
    /\ lexer.pos >= Len(source.input)
    /\ lexer' = IF lexer.tokens = <<>> THEN lexer ELSE push_token(lexer, EoF, <<>>)
    /\ result' = Success(None, <<>>)
    /\ pc' = "idle"
    /\ UNCHANGED <<variables, stack, ip, chunk, source, ast, entry, calls, writes, lines, host>>

\* The input is exhausted: the EoF token is pushed and tokenize returns Ok.
TokenizeEnd ==
    /\ pc = "lexing"
    /\ lexer.pos >= Len(source.input)
    /\ lexer' = push_token(lexer, EoF, <<>>)
    /\ result' = Success(None, <<>>)
    /\ pc' = "idle"
    /\ UNCHANGED <<variables, stack, ip, chunk, source, ast, entry, calls, writes, lines, host>>

NextLexer ==
    \/ pc = "idle" /\ calls = 0 /\ \E input \in LexTexts(MaxLex) : LexerStart(input)
    \/ TokenizeStep
    \/ TokenizeEnd

SpecLexer == Init /\ [][NextLexer]_vars

\* A call of tokenize has returned.
Tokenized == source.level = "lexer" /\ pc = "idle"

\* The row and column of the character at index k (0-based) of a text: the
\* newlines in front of it, and the characters since the last of them.
RowOf(text, k) == Cardinality({i \in 1..k : text[i] = "\n"})

ColOf(text, k) ==
    IF \E i \in 1..k : text[i] = "\n"
    THEN k - (CHOOSE i \in 1..k : text[i] = "\n" /\ \A j \in (i + 1)..k : text[j] # "\n")
    ELSE k

PositionOf(text, k) == TokenMeta(RowOf(text, k), ColOf(text, k))

\* scan_identifier and scan_keyword: no arm of tokenize calls them, so no
\* action of the lexer applies them.
RECURSIVE IdentifierEnd(_, _)
IdentifierEnd(input, end) ==
    IF end < Len(input) /\ PeekAt(input, end) # " "
    THEN IdentifierEnd(input, end + 1)
    ELSE end

scan_identifier(input, l) ==
    LexOk(advance(push_token(l, Identifier,
                             SubSeq(input, l.pos + 1, IdentifierEnd(input, l.pos + 1))),
                  IdentifierEnd(input, l.pos + 1) - l.pos))

scan_keyword(input, l) ==
    IF /\ PeekAt(input, l.pos) = "l"
       /\ l.pos + 3 <= Len(input)
       /\ SubSeq(input, l.pos + 1, l.pos + 3) = T_let
    THEN LexOk(advance(push_token(l, Let, T_let), 3))
    ELSE scan_identifier(input, l)

\* The classes of the tokens the lexer has produced.
ClassesOf(tokens) == {tokens[i].token_class : i \in 1..Len(tokens)}

(***************************************************************************)
(* C17.  Every token class is producible: tokenize succeeds on "=" and     *)
(* emits the equals token, succeeds on "let" and emits the keyword token,  *)
(* and succeeds on any other run of non-space characters such as "x" and   *)
(* emits an identifier.  tokenize has no arm for '=' or for a letter, so   *)
(* each of these texts ends in UnexpectedCharacter and this is violated.   *)
(***************************************************************************)
C17_EveryClassProducible ==
    Tokenized =>
        /\ source.input = <<"=">> => (result.kind = "ok" /\ Eq \in ClassesOf(lexer.tokens))
        /\ source.input = T_let => (result.kind = "ok" /\ Let \in ClassesOf(lexer.tokens))
        /\ source.input = <<"x">> =>
               (result.kind = "ok" /\ Identifier \in ClassesOf(lexer.tokens))

\* Position a lies in front of position b in the text.
Before(a, b) == a.row < b.row \/ (a.row = b.row /\ a.col < b.col)

\* The token is the piece of the text that starts at the token's position.
TakenFrom(text, token) ==
    \E k \in 0..(Len(text) - 1) :
        /\ PositionOf(text, k) = token.meta
        /\ k + Len(token.lexeme) <= Len(text)
        /\ SubSeq(text, k + 1, k + Len(token.lexeme)) = token.lexeme

(***************************************************************************)
(* C18.  Every successful tokenize yields a sequence with exactly one      *)
(* end-of-input token, which is the last one, also for an empty or         *)
(* whitespace-only text; the tokens before it are pieces of the text in    *)
(* the order of the text.                                                  *)
(***************************************************************************)
C18_OneEoFLast ==
    (Tokenized /\ result.kind = "ok") =>
        /\ Len(lexer.tokens) >= 1
        /\ lexer.tokens[Len(lexer.tokens)] =
               Token(EoF, <<>>, PositionOf(source.input, Len(source.input)))
        /\ \A i \in 1..(Len(lexer.tokens) - 1) :
               /\ lexer.tokens[i].token_class # EoF
               /\ TakenFrom(source.input, lexer.tokens[i])
               /\ Before(lexer.tokens[i].meta, lexer.tokens[i + 1].meta)

\* tokenize of " \n" has returned the lone end-of-input token of row 1.
C18_Witness ==
    /\ Tokenized
    /\ result.kind = "ok"
    /\ source.input = <<" ", "\n">>
    /\ lexer.tokens = <<Token(EoF, <<>>, TokenMeta(1, 0))>>

\* The index (0-based) of the second '.' of the run of digits and '.' that
\* starts at index from.
SecondDot(text, from) ==
    CHOOSE k \in from..(Len(text) - 1) :
        /\ text[k + 1] = "."
        /\ \A j \in from..k : IsDigit(text[j + 1]) \/ text[j + 1] = "."
        /\ Cardinality({j \in from..(k - 1) : text[j + 1] = "."}) = 1

\* The index of the character a failed tokenize reports: the second '.' of
\* the literal under the cursor, or else the character under the cursor.
Offending ==
    IF result.err.kind = "InvalidNumericLit"
    THEN SecondDot(source.input, lexer.pos)
    ELSE lexer.pos

(***************************************************************************)
(* C19.  A failed tokenize reports the row and column of the offending     *)
(* character (the newlines in front of it, the characters since the last   *)
(* newline); for a second '.' inside a numeric literal that is the         *)
(* position of the second '.'.  scan_num_lit builds the error from the     *)
(* row and column of the literal's first digit, so this is violated.       *)
(***************************************************************************)
C19_ErrorAtOffendingCharacter ==
    (Tokenized /\ result.kind = "err") =>
        /\ result.err.char = <<source.input[Offending + 1]>>
        /\ result.err.meta = PositionOf(source.input, Offending)

\* The end (exclusive, 0-based) of the maximal run of digits and '.' that
\* starts at index from.
RECURSIVE RunEnd(_, _)
RunEnd(text, from) ==
    IF from < Len(text) /\ (IsDigit(text[from + 1]) \/ text[from + 1] = ".")
    THEN RunEnd(text, from + 1)
    ELSE from

\* The number of '.' in the characters from..(to - 1) of the text.
DotsIn(text, from, to) == Cardinality({j \in from..(to - 1) : text[j + 1] = "."})

\* An iteration of tokenize with a digit under the cursor.
AtNumber ==
    /\ pc = "lexing"
    /\ lexer.pos < Len(source.input)
    /\ IsDigit(PeekAt(source.input, lexer.pos))

(***************************************************************************)
(* C20.  With a digit under the cursor, the maximal run of digits and '.'  *)
(* that starts there lexes, when it holds at most one '.', to a single     *)
(* numeric-literal token whose text is the whole run (a run that ends in   *)
(* '.' included) and the cursor moves behind the run; when it holds a      *)
(* second '.', tokenize fails with InvalidNumericLit and no token is       *)
(* pushed.                                                                 *)
(***************************************************************************)
C20_NumericLitIsWholeRun ==
    [][AtNumber =>
         IF DotsIn(source.input, lexer.pos, RunEnd(source.input, lexer.pos)) <= 1
         THEN /\ pc' = "lexing"
              /\ lexer'.tokens =
                     Append(lexer.tokens,
                            Token(NumericLit,
                                  SubSeq(source.input, lexer.pos + 1,
                                         RunEnd(source.input, lexer.pos)),
                                  TokenMeta(lexer.row, lexer.col)))
              /\ lexer'.pos = RunEnd(source.input, lexer.pos)
              /\ lexer'.col = lexer.col + (RunEnd(source.input, lexer.pos) - lexer.pos)
              /\ lexer'.row = lexer.row
         ELSE /\ pc' = "idle"
              /\ result'.kind = "err"
              /\ result'.err.kind = "InvalidNumericLit"
              /\ lexer'.tokens = lexer.tokens]_vars

\* tokenize of "1. 2" has returned the literals "1." and "2".
C20_Witness ==
    /\ Tokenized
    /\ result.kind = "ok"
    /\ source.input = <<"1", ".", " ", "2">>
    /\ lexer.tokens = <<Token(NumericLit, <<"1", ".">>, TokenMeta(0, 0)),
                        Token(NumericLit, <<"2">>, TokenMeta(0, 3)),
                        Token(EoF, <<>>, TokenMeta(0, 4))>>

\* No binary minus of the tree has a binary node as its right operand.
RECURSIVE MinusRightIsPrimary(_)
MinusRightIsPrimary(node) ==
    CASE node.type = "BinaryExpr" ->
           /\ node.token.token_class = Min => node.right.type # "BinaryExpr"
           /\ MinusRightIsPrimary(node.left)
           /\ MinusRightIsPrimary(node.right)
      [] node.type = "UnaryExpr" -> MinusRightIsPrimary(node.operand)
      [] node.type = "Expr" -> MinusRightIsPrimary(node.expr)
      [] node.type = "VariableAssignmentStmt" -> MinusRightIsPrimary(node.expression)
      [] OTHER -> TRUE

(***************************************************************************)
(* C21: the right operand of a binary minus is parsed at binding power     *)
(* 11.0, above every left binding power, so in every parsed tree it is a   *)
(* primary or unary operand, never a binary node; for every binary         *)
(* operator op the stream a - b op c of atoms parses to                    *)
(* BinaryExpr(op, BinaryExpr(-, a, b), c).                                 *)
(***************************************************************************)
C21_MinusRightOperandIsPrimary ==
    (source.level = "tokens" /\ ast # None) =>
        /\ MinusRightIsPrimary(ast[1])
        /\ \A op \in {Star, Slash, Min, Plus} :
               (/\ Len(source.input) = 6
                /\ IsAtom(source.input[1]) /\ IsAtom(source.input[3]) /\ IsAtom(source.input[5])
                /\ source.input[2].token_class = Min
                /\ source.input[4].token_class = op)
               => ast = Some(BinaryExpr(source.input[4],
                                        BinaryExpr(source.input[2], Leaf(source.input[1]),
                                                   Leaf(source.input[3])),
                                        Leaf(source.input[5])))

\* "1 - 2 * 2" has parsed to (1 - 2) * 2 and has returned -2.
C21_Witness ==
    /\ Returned
    /\ Kinds(source.input) = <<NumericLit, Min, NumericLit, Star, NumericLit>>
    /\ source.input[1].lexeme = <<"1">>
    /\ source.input[3].lexeme = <<"2">>
    /\ source.input[5].lexeme = <<"2">>
    /\ ast # None
    /\ ast[1].type = "BinaryExpr"
    /\ ast[1].token.token_class = Star
    /\ ast[1].left.type = "BinaryExpr"
    /\ ast[1].left.token.token_class = Min
    /\ result.kind = "ok"
    /\ result.text = <<"-", "2">>

\* No unary minus of the tree has a binary node as its operand.
RECURSIVE UnaryOperandIsPrimary(_)
UnaryOperandIsPrimary(node) ==
    CASE node.type = "UnaryExpr" ->
           /\ node.operand.type # "BinaryExpr"
           /\ UnaryOperandIsPrimary(node.operand)
      [] node.type = "BinaryExpr" ->
           UnaryOperandIsPrimary(node.left) /\ UnaryOperandIsPrimary(node.right)
      [] node.type = "Expr" -> UnaryOperandIsPrimary(node.expr)
      [] node.type = "VariableAssignmentStmt" -> UnaryOperandIsPrimary(node.expression)
      [] OTHER -> TRUE

(***************************************************************************)
(* C22: a unary minus parses its operand at the right binding power of     *)
(* binary minus, so in every parsed tree its operand is never a binary     *)
(* node; for every binary operator op the stream - a op b of atoms parses  *)
(* to BinaryExpr(op, UnaryExpr(-, a), b).                                  *)
(***************************************************************************)
C22_UnaryMinusTakesPrimary ==
    (source.level = "tokens" /\ ast # None) =>
        /\ UnaryOperandIsPrimary(ast[1])
        /\ \A op \in {Star, Slash, Min, Plus} :
               (/\ Len(source.input) = 5
                /\ source.input[1].token_class = Min
                /\ IsAtom(source.input[2]) /\ IsAtom(source.input[4])
                /\ source.input[3].token_class = op)
               => ast = Some(BinaryExpr(source.input[3],
                                        UnaryExpr(source.input[1], Leaf(source.input[2])),
                                        Leaf(source.input[4])))

\* "-1 + 2" has parsed to (-1) + 2 and has returned 1.
C22_Witness ==
    /\ Returned
    /\ Kinds(source.input) = <<Min, NumericLit, Plus, NumericLit>>
    /\ source.input[2].lexeme = <<"1">>
    /\ source.input[4].lexeme = <<"2">>
    /\ ast # None
    /\ ast[1].type = "BinaryExpr"
    /\ ast[1].token.token_class = Plus
    /\ ast[1].left.type = "UnaryExpr"
    /\ result.kind = "ok"
    /\ result.text = <<"1">>

\* The next instruction is a SetVar whose operand indexes a constant, and the
\* operand stack is empty.
SetVarOnEmptyStack ==
    /\ pc = "running"
    /\ ip < Len(chunk.code)
    /\ chunk.code[ip + 1] = OpSetVar
    /\ Operand(chunk, vm) # None
    /\ stack = <<>>

RECURSIVE Starts(_, _)
Starts(code, i) ==
    IF i >= Len(code) THEN {}
    ELSE {i} \cup Starts(code, IF code[i + 1] \in {OpConstant, OpSetVar, OpGetVar}
                               THEN i + 2 ELSE i + 1)

\* The token class an opcode is emitted for.
TagClass(op_code) ==
    CASE op_code = OpAdd -> {Plus}
      [] op_code = OpSubtract -> {Min}
      [] op_code = OpMultiply -> {Star}
      [] op_code = OpDivide -> {Slash}
      [] op_code = OpNegate -> {Min}
      [] op_code = OpConstant -> {NumericLit}
      [] op_code = OpGetVar -> {Identifier}
      [] OTHER -> {Let, Identifier, Eq}

\* The tokens of a stream that an instruction is emitted for: the atoms and
\* the arithmetic operators, not the parentheses.
Emitting(tokens) ==
    {i \in 1..Len(tokens) : tokens[i].token_class \in
                               {NumericLit, Identifier, Plus, Min, Star, Slash}}

(***************************************************************************)
(* C24: in a compiled chunk the token table has one entry per word of the  *)
(* instruction stream; the entry at an opcode's start position is a token  *)
(* of the program, the operator token for Add, Subtract, Multiply, Divide  *)
(* and Negate and the literal's token for Constant, whose operand word     *)
(* carries the same token and indexes the literal's value; a parenthesis   *)
(* contributes no entry and no instruction: there is one instruction per   *)
(* atom and arithmetic operator of the program, each with its own token.   *)
(***************************************************************************)
C24_InstructionsTagged ==
    (source.level = "tokens" /\ pc = "running") =>
        /\ Len(chunk.tokens) = Len(chunk.code)
        /\ \A j \in 1..Len(chunk.tokens) :
               chunk.tokens[j].token_class \notin {LeftParen, RightParen}
        /\ \A i \in Starts(chunk.code, 0) :
               /\ chunk.tokens[i + 1] = source.input[chunk.tokens[i + 1].meta.col + 1]
               /\ chunk.tokens[i + 1].token_class \in TagClass(chunk.code[i + 1])
               /\ chunk.code[i + 1] = OpConstant =>
                      /\ chunk.tokens[i + 2] = chunk.tokens[i + 1]
                      /\ chunk.constants[chunk.code[i + 2] + 1] =
                             Number(ParseF64(chunk.tokens[i + 1].lexeme))
        /\ \A i, j \in Starts(chunk.code, 0) :
               i # j => chunk.tokens[i + 1] # chunk.tokens[j + 1]
        /\ Cardinality(Starts(chunk.code, 0)) = Cardinality(Emitting(source.input))

\* "(1) * 2" has compiled to Constant, Constant, Multiply, tagged with the
\* tokens 1, 2 and *.
C24_Witness ==
    /\ source.level = "tokens"
    /\ pc = "running"
    /\ Kinds(source.input) = <<LeftParen, NumericLit, RightParen, Star, NumericLit>>
    /\ chunk.code = <<OpConstant, 0, OpConstant, 1, OpMultiply>>
    /\ chunk.tokens = <<source.input[2], source.input[2], source.input[5], source.input[5],
                        source.input[4]>>

\* A call on a text or on a token stream has returned.
CallReturned == source.level \in {"text", "tokens"} /\ pc # "running"

\* The call was an assignment that executed successfully.
AssignmentExecuted ==
    /\ CallReturned
    /\ result.kind = "ok"
    /\ ast # None
    /\ ast[1].type = "VariableAssignmentStmt"

(***************************************************************************)
(* C25: a call changes the variable environment only when the program is   *)
(* an assignment that executes successfully, and then only the binding of  *)
(* the assigned name: the other names keep the values the call started     *)
(* with.  After every failed call and after every expression evaluation    *)
(* the environment is the one the call started with.                       *)
(***************************************************************************)
C25_EnvironmentFrame ==
    CallReturned =>
        IF AssignmentExecuted
        THEN /\ DOMAIN variables = DOMAIN entry.variables \cup {ast[1].identifier}
             /\ \A name \in DOMAIN entry.variables \ {ast[1].identifier} :
                    variables[name] = entry.variables[name]
        ELSE variables = entry.variables

\* "let x = 1;" has executed from an environment binding x to 3 and y to 1: x
\* has changed, y has not.
C25_Witness ==
    /\ AssignmentExecuted
    /\ Kinds(source.input) = <<Let, Identifier, Eq, NumericLit, Semicolon>>
    /\ DOMAIN entry.variables = {<<"x">>, <<"y">>}
    /\ ast[1].identifier = <<"x">>
    /\ variables[<<"x">>] # entry.variables[<<"x">>]
    /\ variables[<<"y">>] = entry.variables[<<"y">>]

\* The values an instruction pops from the operand stack.
Pops(op_code) ==
    CASE op_code \in {OpAdd, OpSubtract, OpMultiply, OpDivide} -> 2
      [] op_code \in {OpNegate, OpSetVar} -> 1
      [] OTHER -> 0

(***************************************************************************)
(* C26: for every program the parser accepts, the execution of the         *)
(* compiled chunk never underflows the operand stack: every instruction    *)
(* reached is a known opcode that finds the numbers it pops, and at most   *)
(* one value is left at the end; the execution never aborts, and the only  *)
(* runtime error it can return is UninitialisedVariable.                   *)
(***************************************************************************)
C26_OnlyUninitialisedVariable ==
    (source.level = "tokens" /\ ast # None) =>
        /\ pc # "aborted"
        /\ result.kind \in {"none", "ok", "err"}
        /\ (result.kind = "err" /\ result.stage = "Runtime") =>
               result.err = "UninitialisedVariable"
        /\ (pc = "running" /\ ip < Len(chunk.code)) =>
               /\ from_usize(chunk.code[ip + 1]) # None
               /\ Len(stack) >= Pops(chunk.code[ip + 1])
               /\ \A i \in 1..Len(stack) : stack[i].type = "Number"
               /\ chunk.code[ip + 1] \in {OpConstant, OpSetVar, OpGetVar} =>
                      Operand(chunk, vm) # None
               /\ chunk.code[ip + 1] \in {OpSetVar, OpGetVar} =>
                      Operand(chunk, vm)[1].type = "String"
        /\ (pc = "running" /\ ip >= Len(chunk.code)) => Len(stack) <= 1

\* "x + 1" has parsed and, with x unbound, has failed with
\* UninitialisedVariable.
C26_Witness ==
    /\ Returned
    /\ ast # None
    /\ Kinds(source.input) = <<Identifier, Plus, NumericLit>>
    /\ entry.variables = EmptyMap
    /\ result.kind = "err"
    /\ result.stage = "Runtime"
    /\ result.err = "UninitialisedVariable"

====
